---- MODULE Spec2Model ----
(***************************************************************************)
(* Turn-taking state machine of the multi-agent collaboration with human   *)
(* feedback (src/main.py): validate_message, agent_node, should_continue,  *)
(* human_feedback, the compiled workflow and the retry loop of main().     *)
(*                                                                         *)
(* A Python string is modelled as a sequence of tokens.  A token is a      *)
(* piece of text the code never looks inside: a name, ":", " ", "**", the  *)
(* completion marker, a vote phrase in some letter case, a plain word.     *)
(* Substring tests, startswith, split, strip, replace and lower are        *)
(* computed on these sequences the way Python computes them on characters. *)
(***************************************************************************)
EXTENDS Integers, Sequences, FiniteSets, TLC

(***************************************************************************)
(* Bounds of the model.                                                    *)
(***************************************************************************)
\* MAX_ITERATIONS is 20 in src/main.py:25; the model runs the same code with
\* a smaller cap so that the cap is reached inside the log bound.
MAX_ITERATIONS == 4
\* Longest message list the model lets the graph hold.
MaxLog == 9
\* Longest message list drawn as input of the validation gate (SpecGate).
MaxGateLog == 5

(***************************************************************************)
(* Program constants.                                                      *)
(***************************************************************************)
MAX_ERRORS == 3

FINAL_ANSWER_MARKER == <<"[FINAL_ANSWER]">>

\* "i vote to submit", the phrase validate_message looks for after lower().
VOTE_PHRASE == <<"i vote to submit">>

\* None, and every other falsy result of the code (the empty string).
None == <<>>

INITIAL_TASK == <<"task">>

\* The roster built in main(), and a two-agent roster for create_workflow.
Rosters ==
    { <<"Research Agent", "Critical Agent">>,
      <<"Research Agent", "Critical Agent", "Creative Agent">> }

(***************************************************************************)
(* Python string operations on token sequences.                            *)
(***************************************************************************)
\* str.lower() of one token: only tokens with capitals change.
LowerTok(t) ==
    CASE t = "I vote to submit" -> "i vote to submit"
      [] t = "I VOTE TO SUBMIT" -> "i vote to submit"
      [] t = "Research Agent" -> "research agent"
      [] t = "Critical Agent" -> "critical agent"
      [] t = "Creative Agent" -> "creative agent"
      [] t = "Human" -> "human"
      [] t = "User Query" -> "user query"
      [] t = "Validation Feedback" -> "validation feedback"
      [] t = "[FINAL_ANSWER]" -> "[final_answer]"
      [] OTHER -> t

Lower(s) == [i \in DOMAIN s |-> LowerTok(s[i])]

StartsWith(s, p) == Len(s) >= Len(p) /\ SubSeq(s, 1, Len(p)) = p

\* Index of the first occurrence of sub in s, 0 when there is none.
Find(s, sub) ==
    LET hits == { i \in 1..(Len(s) - Len(sub) + 1) : SubSeq(s, i, i + Len(sub) - 1) = sub }
    IN  IF hits = {} THEN 0 ELSE CHOOSE i \in hits : \A j \in hits : i <= j

\* sub in s
In(sub, s) == Find(s, sub) # 0

\* s.split(sep)[0]
SplitHead(s, sep) ==
    IF In(sep, s) THEN SubSeq(s, 1, Find(s, sep) - 1) ELSE s

\* s.split(sep, 1)[1] (the code only calls it on strings that hold sep)
SplitRest(s, sep) ==
    SubSeq(s, Find(s, sep) + Len(sep), Len(s))

IsSpace(t) == t \in {" ", "\n"}

RECURSIVE LStrip(_)
LStrip(s) ==
    IF s # <<>> /\ IsSpace(Head(s)) THEN LStrip(Tail(s)) ELSE s

RECURSIVE RStrip(_)
RStrip(s) ==
    IF s # <<>> /\ IsSpace(s[Len(s)]) THEN RStrip(SubSeq(s, 1, Len(s) - 1)) ELSE s

\* s.strip()
Strip(s) == RStrip(LStrip(s))

\* s.replace(old, ""), old a single token
RECURSIVE RemoveAll(_, _)
RemoveAll(s, old) ==
    IF s = <<>> THEN <<>>
    ELSE IF <<Head(s)>> = old THEN RemoveAll(Tail(s), old)
    ELSE <<Head(s)>> \o RemoveAll(Tail(s), old)

Last(s) == s[Len(s)]

(***************************************************************************)
(* Message formats.                                                        *)
(***************************************************************************)
\* f"{name}: {content}"
Labelled(name, content) == <<name, ":", " ">> \o content

\* Mutant: "i vote to submit" in msg, the lower() left out.
HasVoteCaseSensitive(msg) == In(VOTE_PHRASE, msg)

\* "i vote to submit" in msg.lower()
HasVote(msg) == In(VOTE_PHRASE, Lower(msg))

\* FINAL_ANSWER_MARKER in msg
HasMarker(msg) == In(FINAL_ANSWER_MARKER, msg)

IsFeedbackMsg(msg) == StartsWith(msg, <<"Validation Feedback", ":">>)
IsHumanMsg(msg) == StartsWith(msg, <<"Human", ":">>)
IsQueryMsg(msg) == StartsWith(msg, <<"User Query", ":">>)

(***************************************************************************)
(* validate_final_answer_with_llm (src/helper_functions.py).  The reply of *)
(* the validator model is an input: llm.raises says that the call or the   *)
(* JSON parsing raised, the other fields are the parsed JSON object.       *)
(***************************************************************************)
ERROR_DURING_VALIDATION == <<"Error during validation", ":", " ", "error">>

validate_final_answer_with_llm(content, original_query, llm) ==
    IF llm.raises
    THEN [is_valid |-> FALSE, content |-> content, feedback |-> ERROR_DURING_VALIDATION]
    ELSE IF llm.is_valid /\ ~llm.needs_reformatting
    THEN [is_valid |-> TRUE, content |-> content, feedback |-> None]
    ELSE [is_valid |-> TRUE, content |-> llm.cleaned_content, feedback |-> None]

(***************************************************************************)
(* validate_message (src/main.py).                                         *)
(***************************************************************************)
FB_FINAL_TOO_EARLY ==
    <<"Final answer can only be provided after three consecutive agents have voted to submit">>
FB_VOTE_TOO_EARLY ==
    <<"Please engage in thorough discussion before voting to submit">>
FB_CONSENSUS ==
    <<"Consensus reached! As the last agent to vote, please provide the final answer following the format guidelines.">>
FB_FORMAT(validation_feedback) ==
    <<"Final answer format needs improvement", ":", " ">> \o validation_feedback

\* other_agents = [name for name in all_agent_names if name != agent_name]
OtherAgents(all_agent_names, agent_name) ==
    SelectSeq(all_agent_names, LAMBDA name : name # agent_name)

\* for m in markers: if m in content: content = content.split(m)[0].strip()
RECURSIVE CutAtEach(_, _)
CutAtEach(content, markers) ==
    IF markers = <<>> THEN content
    ELSE CutAtEach(
            IF In(Head(markers), content)
            THEN Strip(SplitHead(content, Head(markers)))
            ELSE content,
            Tail(markers))

\* The two role-playing loops: "Name:" of every other agent, then "**Name:**".
RemoveRolePlay(content, agent_name, all_agent_names) ==
    LET other_agents == OtherAgents(all_agent_names, agent_name)
        plain == [i \in DOMAIN other_agents |-> <<other_agents[i], ":">>]
        indicators == [i \in DOMAIN other_agents |-> <<"**", other_agents[i], ":", "**">>]
    IN  CutAtEach(CutAtEach(content, plain), indicators)

\* A message the vote scan keeps: no feedback, human or query entry.
Substantive(msg) == ~IsFeedbackMsg(msg) /\ ~IsHumanMsg(msg) /\ ~IsQueryMsg(msg)

\* The scan of reversed(messages): i is the next index looked at (from the
\* end), acc the vote_messages collected so far; it stops at three.
RECURSIVE ScanVotes(_, _, _)
ScanVotes(messages, i, acc) ==
    IF i = 0 \/ Len(acc) = 3 THEN acc
    ELSE IF Substantive(messages[i])
    THEN ScanVotes(messages, i - 1, Append(acc, messages[i]))
    ELSE ScanVotes(messages, i - 1, acc)

vote_messages(messages) == ScanVotes(messages, Len(messages), <<>>)

\* Mutant: any(...) in place of all(...).
ThreeVotesAny(messages) ==
    LET vm == vote_messages(messages)
    IN  Len(vm) = 3 /\ \E i \in DOMAIN vm : HasVote(vm[i])

\* len(vote_messages) == 3 and all("i vote to submit" in msg.lower() ...)
ThreeVotes(messages) ==
    LET vm == vote_messages(messages)
    IN  Len(vm) = 3 /\ \A i \in DOMAIN vm : HasVote(vm[i])

\* The branch of validate_message that calls validate_final_answer_with_llm.
CallsValidator(content0, agent_name, all_agent_names, messages) ==
    HasMarker(RemoveRolePlay(content0, agent_name, all_agent_names)) /\ ThreeVotes(messages)

validate_message(content0, agent_name, all_agent_names, original_query, messages, llm) ==
    LET content == RemoveRolePlay(content0, agent_name, all_agent_names)
    IN  IF HasMarker(content)
        THEN IF ThreeVotes(messages)
             THEN LET r == validate_final_answer_with_llm(content, original_query, llm)
                  IN  IF r.is_valid
                      THEN [content |-> r.content, feedback |-> None]
                      ELSE [content |-> content, feedback |-> FB_FORMAT(r.feedback)]
             ELSE [content |-> Strip(RemoveAll(content, FINAL_ANSWER_MARKER)),
                   feedback |-> FB_FINAL_TOO_EARLY]
        ELSE IF HasVote(content)
                /\ Len(messages) < 3
                /\ ~\E i \in DOMAIN messages : HasVote(messages[i])
        THEN [content |-> content, feedback |-> FB_VOTE_TOO_EARLY]
        ELSE IF HasVote(content) /\ ThreeVotes(messages)
        THEN [content |-> content, feedback |-> FB_CONSENSUS]
        ELSE [content |-> content, feedback |-> None]

\* msg.split(":")[0]
Speaker(msg) == SplitHead(msg, <<":">>)

(***************************************************************************)
(* should_continue (src/main.py).  st is an AgentState: messages,          *)
(* iteration, phase; agents is the roster.  The result is a node name, or  *)
(* StopIteration when next(...) finds no agent with the speaker's name.    *)
(***************************************************************************)
StopIteration == "StopIteration"

\* Mutant: next_idx = current_idx % len(agents), the speaker is not advanced.
NextIdxNoAdvance(current_idx, n) == ((current_idx - 1) % n) + 1

\* (current_idx + 1) % len(agents), on the 1-based roster
NextIdx(current_idx, n) == (current_idx % n) + 1

\* Mutant: the test for the completion marker is left out.
should_continue_ignores_marker(st, agents) ==
    IF st.messages = <<>> THEN agents[1]
    ELSE
      LET last_message == Last(st.messages)
          current_agent == Speaker(last_message)
          idx == { i \in DOMAIN agents : <<agents[i]>> = current_agent }
      IN  IF current_agent \in { <<"Human">>, <<"User Query">> } THEN agents[1]
          ELSE IF st.iteration >= MAX_ITERATIONS THEN "human"
          ELSE IF idx = {} THEN StopIteration
          ELSE agents[NextIdx(CHOOSE i \in idx : \A j \in idx : i <= j, Len(agents))]

\* Mutant: the decision also reads phase, a field should_continue never
\* looks at: from the second phase on the speaker is not advanced.
should_continue_reads_phase(st, agents) ==
    IF st.messages = <<>> THEN agents[1]
    ELSE
      LET last_message == Last(st.messages)
          current_agent == Speaker(last_message)
          idx == { i \in DOMAIN agents : <<agents[i]>> = current_agent }
      IN  IF current_agent \in { <<"Human">>, <<"User Query">> } THEN agents[1]
          ELSE IF st.iteration >= MAX_ITERATIONS THEN "human"
          ELSE IF HasMarker(last_message) THEN "human"
          ELSE IF idx = {} THEN StopIteration
          ELSE IF st.phase > 1 THEN agents[CHOOSE i \in idx : \A j \in idx : i <= j]
          ELSE agents[NextIdx(CHOOSE i \in idx : \A j \in idx : i <= j, Len(agents))]

\* Mutant: three votes in the latest substantive entries send the graph to
\* the human.
should_continue_votes_suspend(st, agents) ==
    IF st.messages = <<>> THEN agents[1]
    ELSE
      LET last_message == Last(st.messages)
          current_agent == Speaker(last_message)
          idx == { i \in DOMAIN agents : <<agents[i]>> = current_agent }
      IN  IF current_agent \in { <<"Human">>, <<"User Query">> } THEN agents[1]
          ELSE IF st.iteration >= MAX_ITERATIONS THEN "human"
          ELSE IF HasMarker(last_message) \/ ThreeVotes(st.messages) THEN "human"
          ELSE IF idx = {} THEN StopIteration
          ELSE agents[NextIdx(CHOOSE i \in idx : \A j \in idx : i <= j, Len(agents))]

should_continue(st, agents) ==
    IF st.messages = <<>> THEN agents[1]
    ELSE
      LET last_message == Last(st.messages)
          current_agent == Speaker(last_message)
          idx == { i \in DOMAIN agents : <<agents[i]>> = current_agent }
      IN  IF current_agent \in { <<"Human">>, <<"User Query">> } THEN agents[1]
          ELSE IF st.iteration >= MAX_ITERATIONS THEN "human"
          ELSE IF HasMarker(last_message) THEN "human"
          ELSE IF idx = {} THEN StopIteration
          ELSE agents[NextIdx(CHOOSE i \in idx : \A j \in idx : i <= j, Len(agents))]

(***************************************************************************)
(* agent_node (src/main.py), the part after the model's reply: response is *)
(* the reply, llm the format validator's reply.  The result is the state   *)
(* the node returns and whether it is a feedback return.                   *)
(***************************************************************************)
\* Remove agent name prefix if it exists
RemovePrefix(content, name) ==
    LET prefix == <<name, ":", " ">>
    IN  IF StartsWith(content, prefix)
        THEN Strip(SubSeq(content, Len(prefix) + 1, Len(content)))
        ELSE content

\* original_query = state["messages"][0].split(":", 1)[1].strip()
OriginalQuery(st) == Strip(SplitRest(st.messages[1], <<":">>))

\* Mutant: an accepted utterance does not count as a turn.
agent_node_no_count(st, agents, name, response, llm) ==
    LET v == validate_message(RemovePrefix(response, name), name, agents,
                              OriginalQuery(st), st.messages, llm)
    IN  IF v.feedback # None
        THEN [rejected |-> TRUE,
              feedback |-> v.feedback,
              state |-> [messages |-> Append(st.messages, Labelled("Validation Feedback", v.feedback)),
                         phase |-> st.phase,
                         iteration |-> st.iteration]]
        ELSE [rejected |-> FALSE,
              feedback |-> None,
              state |-> [messages |-> Append(st.messages, Labelled(name, v.content)),
                         phase |-> st.phase,
                         iteration |-> st.iteration]]

\* Mutant: the feedback return counts as a turn (iteration + 1).
agent_node_counts_feedback(st, agents, name, response, llm) ==
    LET v == validate_message(RemovePrefix(response, name), name, agents,
                              OriginalQuery(st), st.messages, llm)
    IN  IF v.feedback # None
        THEN [rejected |-> TRUE,
              feedback |-> v.feedback,
              state |-> [messages |-> Append(st.messages, Labelled("Validation Feedback", v.feedback)),
                         phase |-> st.phase,
                         iteration |-> st.iteration + 1]]
        ELSE [rejected |-> FALSE,
              feedback |-> None,
              state |-> [messages |-> Append(st.messages, Labelled(name, v.content)),
                         phase |-> st.phase,
                         iteration |-> st.iteration + 1]]

agent_node(st, agents, name, response, llm) ==
    LET v == validate_message(RemovePrefix(response, name), name, agents,
                              OriginalQuery(st), st.messages, llm)
    IN  IF v.feedback # None
        THEN [rejected |-> TRUE,
              feedback |-> v.feedback,
              state |-> [messages |-> Append(st.messages, Labelled("Validation Feedback", v.feedback)),
                         phase |-> st.phase,
                         iteration |-> st.iteration]]
        ELSE [rejected |-> FALSE,
              feedback |-> None,
              state |-> [messages |-> Append(st.messages, Labelled(name, v.content)),
                         phase |-> st.phase,
                         iteration |-> st.iteration + 1]]

(***************************************************************************)
(* human_feedback (src/main.py), resumed with the value main() passes in   *)
(* Command(resume=feedback): the update it returns, or END.                *)
(***************************************************************************)
END == "__end__"

human_feedback(st, feedback) ==
    IF feedback = None
    THEN [goto |-> END, state |-> st]
    ELSE [goto |-> "next",
          state |-> [messages |-> Append(st.messages, Labelled("Human", feedback)),
                     phase |-> st.phase + 1,
                     iteration |-> 0]]

\* workflow.set_entry_point(agents[0]["name"])
EntryPoint(agents) == agents[1]

\* Mutant: the edge out of the human node goes to the last roster entry.
HumanEdgeLast(agents) == agents[Len(agents)]

\* workflow.add_edge("human", agents[0]["name"])
HumanEdge(agents) == agents[1]

(***************************************************************************)
(* Inputs of the state machine: what the generation model, the format      *)
(* validator and the human may answer.                                     *)
(***************************************************************************)
Responses ==
    { <<"idea">>,
      <<"analysis", "\n", "I vote to submit">>,
      <<"plan", "\n", "[FINAL_ANSWER]">> }

ValidatorReplies ==
    [raises : {FALSE}, is_valid : BOOLEAN, needs_reformatting : BOOLEAN,
     cleaned_content : { <<"plan", "\n", "[FINAL_ANSWER]">>, <<"plan">> }]
    \cup
    { [raises |-> TRUE, is_valid |-> FALSE, needs_reformatting |-> FALSE,
       cleaned_content |-> <<>>] }

\* Stands for the validator's reply in a step that does not call it.
NoReply ==
    [raises |-> TRUE, is_valid |-> FALSE, needs_reformatting |-> FALSE,
     cleaned_content |-> <<>>]

\* What input("Your feedback: ").strip() returns when it is not empty.
Feedbacks == { <<"more detail">> }

(***************************************************************************)
(* The two-agent revision (src/agent_collab_v2.py): agent_fn,              *)
(* human_feedback, route_by_response and the edges of its workflow.  The   *)
(* state channels have no reducer, so a node's "messages" replaces the     *)
(* list.  A message is modelled by its content, a token sequence.          *)
(***************************************************************************)
V2_MAX_ITERATIONS == 5

\* str.upper() of one token.
UpperTok(t) ==
    CASE t = "terminate" -> "TERMINATE"
      [] t = "draft" -> "DRAFT"
      [] t = "done" -> "DONE"
      [] t = "go on" -> "GO ON"
      [] t = "please" -> "PLEASE"
      [] t = "Max iterations reached" -> "MAX ITERATIONS REACHED"
      [] t = "Let's work on this task together" -> "LET'S WORK ON THIS TASK TOGETHER"
      [] OTHER -> t

Upper(s) == [i \in DOMAIN s |-> UpperTok(s[i])]

\* "TERMINATE - Max iterations reached"
V2_MAX_REACHED == <<"TERMINATE", " ", "-", " ", "Max iterations reached">>

v2_initial_state ==
    [messages |-> << <<"Let's work on this task together">> >>,
     current_agent |-> "agent1",
     iterations |-> 0]

\* Mutant: the cap test is iterations > MAX_ITERATIONS.
agent_fn_late_cap(st, response) ==
    IF st.iterations > V2_MAX_ITERATIONS
    THEN [invoked |-> FALSE,
          state |-> [messages |-> << V2_MAX_REACHED >>,
                     current_agent |-> END,
                     iterations |-> st.iterations]]
    ELSE [invoked |-> TRUE,
          state |-> [messages |-> << response >>,
                     current_agent |-> st.current_agent,
                     iterations |-> st.iterations + 1]]

\* agent_fn: response is what llm.invoke returns when it is called;
\* invoked says whether it was called.
agent_fn(st, response) ==
    IF st.iterations >= V2_MAX_ITERATIONS
    THEN [invoked |-> FALSE,
          state |-> [messages |-> << V2_MAX_REACHED >>,
                     current_agent |-> END,
                     iterations |-> st.iterations]]
    ELSE [invoked |-> TRUE,
          state |-> [messages |-> << response >>,
                     current_agent |-> st.current_agent,
                     iterations |-> st.iterations + 1]]

\* human_feedback of the revision, resumed with user_input.
v2_human_feedback(st, user_input) ==
    IF Strip(user_input) # <<>>
    THEN [messages |-> << user_input >>,
          current_agent |-> "agent1",
          iterations |-> st.iterations]
    ELSE [messages |-> <<>>,
          current_agent |-> END,
          iterations |-> st.iterations]

route_by_response(st) ==
    LET last_message == Last(st.messages)
    IN  IF In(<<"TERMINATE">>, Upper(last_message)) THEN "interrupt"
        ELSE IF st.current_agent = "agent1" THEN "agent2" ELSE "agent1"

\* The mapping of add_conditional_edges for an agent node: the keys it
\* accepts and the node each key leads to; "KeyError" for any other result.
V2EdgeKeys(n) ==
    IF n = "agent1" THEN {"agent2", "interrupt"} ELSE {"agent1", "interrupt"}

V2Edge(n, result) ==
    IF result \notin V2EdgeKeys(n) THEN "KeyError"
    ELSE IF result = "interrupt" THEN "human" ELSE result

\* lambda x: "agent1" if x["messages"] else END
V2HumanEdge(st) == IF st.messages # <<>> THEN "agent1" ELSE END

\* What llm.invoke may return, and what the human may type.
V2Responses ==
    { <<"draft">>, <<"done", " ", "terminate">>, <<"done", " ", "TERMINATE">> }

V2Inputs == { <<"go on">>, <<"please", " ", "terminate">>, <<" ">>, <<>> }

(***************************************************************************)
(* State.                                                                  *)
(*   agents            the roster (state["agents"], fixed)                 *)
(*   checkpoint        the graph's channel values: messages, phase,        *)
(*                     iteration (csv_file is a path and is left out)      *)
(*   node              the node the graph runs next                        *)
(*   state, last_valid_state, error_count   main()'s locals                *)
(*   pc                "stream": inside for output in app.stream(...);     *)
(*                     "top": at while True, before app.stream;            *)
(*                     "ended": main() has returned                        *)
(* History (not program state):                                            *)
(*   last              the node operation that acted last and the node it  *)
(*                     ran in (entering app.stream with a dict leaves it)  *)
(*   consec            caught errors since the last agent step that        *)
(*                     returned normally                                   *)
(*   clean             no error, rejection or human round so far           *)
(*   gate_in, gate_out input and result of validate_message under SpecGate *)
(*   v2                the two-agent revision under SpecV2: its AgentState *)
(*                     (st), the node its graph runs next (at), and        *)
(*                     history: the node that ran last (prev), whether it  *)
(*                     called llm.invoke (invoked), the feedback rounds so *)
(*                     far (rounds), feedback given at the cap (fed_capped)*)
(***************************************************************************)
VARIABLES agents, checkpoint, node, state, last_valid_state, error_count, pc,
          last, consec, clean, gate_in, gate_out, v2

prog == <<agents, checkpoint, node, state, last_valid_state, error_count, pc>>
hist == <<last, consec, clean>>
gate == <<gate_in, gate_out, v2>>
vars == <<agents, checkpoint, node, state, last_valid_state, error_count, pc,
          last, consec, clean, gate_in, gate_out, v2>>

\* main()'s state variable holds an AgentState dict or a Command.
Dict(st) ==
    [kind |-> "dict", messages |-> st.messages, phase |-> st.phase,
     iteration |-> st.iteration, resume |-> None]

\* Command(resume=feedback, update=new_state)
Command(feedback, new_state) ==
    [kind |-> "Command", messages |-> new_state.messages, phase |-> new_state.phase,
     iteration |-> new_state.iteration, resume |-> feedback]

Channels(st) ==
    [messages |-> st.messages, phase |-> st.phase, iteration |-> st.iteration]

\* Mutant: the first message is the query without its label.
initial_state_no_label ==
    [messages |-> << INITIAL_TASK >>, phase |-> 1, iteration |-> 0]

initial_state ==
    [messages |-> << Labelled("User Query", INITIAL_TASK) >>, phase |-> 1, iteration |-> 0]

IsAgent(n) == \E i \in DOMAIN agents : agents[i] = n

NoGate == [used |-> FALSE]

NoV2 == [used |-> FALSE]

\* main() up to its first app.stream(initial_state, config): the graph holds
\* the initial state and is about to run its entry point.
Init ==
    /\ agents \in Rosters
    /\ checkpoint = initial_state
    /\ node = EntryPoint(agents)
    /\ state = Dict(initial_state)
    /\ last_valid_state = Dict(initial_state)
    /\ error_count = 0
    /\ pc = "stream"
    /\ last = [op |-> "start", by |-> "none"]
    /\ consec = 0
    /\ clean = TRUE
    /\ gate_in = NoGate
    /\ gate_out = NoGate
    /\ v2 = NoV2

\* Mutant: the ceiling test is error_count > MAX_ERRORS.
CaughtLate ==
    /\ error_count' = error_count + 1
    /\ pc' = IF error_count + 1 > MAX_ERRORS THEN "ended" ELSE "top"
    /\ UNCHANGED <<agents, checkpoint, node, state, last_valid_state>>

\* except Exception: error_count += 1; return at MAX_ERRORS, else continue.
\* The failed step wrote nothing: the graph and main()'s locals are as before.
Caught ==
    /\ error_count' = error_count + 1
    /\ pc' = IF error_count + 1 >= MAX_ERRORS THEN "ended" ELSE "top"
    /\ UNCHANGED <<agents, checkpoint, node, state, last_valid_state>>

\* A node's update reaches main(): state = node_state, last_valid_state =
\* node_state, error_count = 0; the graph goes on to the routed node.
Emitted(new, route) ==
    /\ checkpoint' = new
    /\ node' = route
    /\ state' = Dict(new)
    /\ last_valid_state' = Dict(new)
    /\ error_count' = 0
    /\ UNCHANGED <<agents, pc>>

\* History of a step that ended in the except branch.
NoteError(op, by) ==
    /\ last' = [op |-> op, by |-> by]
    /\ consec' = consec + 1
    /\ clean' = FALSE

\* History of an agent step that returned normally.
NoteStep(op, by, stays_clean) ==
    /\ last' = [op |-> op, by |-> by]
    /\ consec' = 0
    /\ clean' = (clean /\ stays_clean)

\* What agent_node can return in the graph's state for the node's agent, one
\* result for every reply of the generation model and of the validator.
\* The validator's reply is an input only of the steps that call it.
Returns ==
    UNION { { agent_node(checkpoint, agents, node, response, llm) :
                llm \in IF CallsValidator(RemovePrefix(response, node), node, agents,
                                          checkpoint.messages)
                        THEN ValidatorReplies
                        ELSE {NoReply} } :
            response \in Responses }

\* Mutant: the error is caught without being counted.
AgentErrorNotCounted ==
    /\ pc = "stream" /\ IsAgent(node)
    /\ pc' = "top"
    /\ UNCHANGED <<agents, checkpoint, node, state, last_valid_state, error_count>>
    /\ UNCHANGED hist
    /\ UNCHANGED gate

\* llm.invoke(prompt) raises in agent_node.
AgentError ==
    /\ pc = "stream" /\ IsAgent(node)
    /\ Caught
    /\ NoteError("error", "none")
    /\ UNCHANGED gate

\* validate_message returns feedback: the node returns the log with a
\* "Validation Feedback:" entry, and should_continue runs on that state.
\* When should_continue raises, the node's task fails and nothing is
\* written; the StopIteration leaves the generator app.stream as a
\* RuntimeError, which main() catches in its except Exception branch.
AgentRejected ==
    /\ pc = "stream" /\ IsAgent(node)
    /\ Len(checkpoint.messages) < MaxLog
    /\ \E r \in Returns :
         LET route == should_continue(r.state, agents)
         IN  /\ r.rejected
             /\ IF route = StopIteration
                THEN Caught /\ NoteError("rejected", node)
                ELSE Emitted(r.state, route) /\ NoteStep("rejected", node, FALSE)
    /\ UNCHANGED gate

\* The candidate is accepted and save_conversation_to_csv returns.
AgentSpeaks ==
    /\ pc = "stream" /\ IsAgent(node)
    /\ Len(checkpoint.messages) < MaxLog
    /\ \E r \in Returns :
         LET route == should_continue(r.state, agents)
         IN  /\ ~r.rejected
             /\ IF route = StopIteration
                THEN Caught /\ NoteError("error", "none")
                ELSE Emitted(r.state, route) /\ NoteStep("speak", node, TRUE)
    /\ UNCHANGED gate

\* The candidate is accepted and save_conversation_to_csv raises.
AgentLogError ==
    /\ pc = "stream" /\ IsAgent(node)
    /\ { r \in Returns : ~r.rejected } # {}
    /\ Caught
    /\ NoteError("error", "none")
    /\ UNCHANGED gate

\* Mutant: the empty line is answered with continue, not return.
HumanEndsContinues ==
    /\ pc = "stream" /\ node = "human"
    /\ pc' = "top"
    /\ last' = [op |-> "human_end", by |-> "human"]
    /\ UNCHANGED <<agents, checkpoint, node, state, last_valid_state, error_count>>
    /\ UNCHANGED <<consec, clean>>
    /\ UNCHANGED gate

\* The human node interrupts; main() reads an empty line and returns.
HumanEnds ==
    /\ pc = "stream" /\ node = "human"
    /\ pc' = "ended"
    /\ last' = [op |-> "human_end", by |-> "human"]
    /\ UNCHANGED <<agents, checkpoint, node, state, last_valid_state, error_count>>
    /\ UNCHANGED <<consec, clean>>
    /\ UNCHANGED gate

\* The human node interrupts; main() reads feedback, logs it and builds
\* Command(resume=feedback, update=new_state) from last_valid_state.
HumanFeedback ==
    /\ pc = "stream" /\ node = "human"
    /\ Len(last_valid_state.messages) + 2 <= MaxLog
    /\ \E feedback \in Feedbacks :
         LET new_state ==
               [messages |-> Append(last_valid_state.messages, Labelled("Human", feedback)),
                phase |-> last_valid_state.phase + 1,
                iteration |-> 0]
         IN  state' = Command(feedback, new_state)
    /\ pc' = "top"
    /\ last' = [op |-> "human", by |-> "human"]
    /\ clean' = FALSE
    /\ UNCHANGED <<agents, checkpoint, node, last_valid_state, error_count>>
    /\ UNCHANGED consec
    /\ UNCHANGED gate

\* The human node interrupts; save_conversation_to_csv raises in main().
HumanLogError ==
    /\ pc = "stream" /\ node = "human"
    /\ Caught
    /\ NoteError("error", "none")
    /\ UNCHANGED gate

\* while True with a dict in state: last_valid_state = state and
\* app.stream(state, config).  The input overwrites every channel and the
\* graph starts at its entry point.
StreamInput ==
    /\ pc = "top" /\ state.kind = "dict"
    /\ last_valid_state' = state
    /\ checkpoint' = Channels(state)
    /\ node' = EntryPoint(agents)
    /\ pc' = "stream"
    /\ UNCHANGED <<agents, state, error_count>>
    /\ UNCHANGED <<last, consec, clean>>
    /\ UNCHANGED gate

\* while True with a Command in state: state = last_valid_state and
\* app.stream(Command(resume=feedback, update=new_state), config).  The
\* update is written to the channels, the human node runs again, interrupt()
\* returns the feedback and the node's own update is written; the graph
\* follows the edge out of the human node.  main() sees the human node's
\* output: no agent name, error_count = 0.
StreamResume ==
    /\ pc = "top" /\ state.kind = "Command"
    /\ LET r == human_feedback(Channels(state), state.resume)
       IN  /\ checkpoint' = r.state
           /\ IF r.goto = END
              THEN pc' = "ended" /\ UNCHANGED node
              ELSE pc' = "stream" /\ node' = HumanEdge(agents)
    /\ state' = last_valid_state
    /\ error_count' = 0
    /\ last' = [op |-> "resume", by |-> "human"]
    /\ UNCHANGED <<agents, last_valid_state>>
    /\ UNCHANGED <<consec, clean>>
    /\ UNCHANGED gate

Next ==
    \/ AgentError
    \/ AgentRejected
    \/ AgentSpeaks
    \/ AgentLogError
    \/ HumanEnds
    \/ HumanFeedback
    \/ HumanLogError
    \/ StreamInput
    \/ StreamResume

Spec == Init /\ [][Next]_vars

\* main() keeps running: a step that can be taken is taken (every call
\* returns or raises, and the human answers the prompt).
SpecLive == Init /\ [][Next]_vars /\ WF_vars(Next)

(***************************************************************************)
(* The validation gate on its own: validate_message applied to message     *)
(* lists, speakers and candidates drawn from bounded sets.                 *)
(***************************************************************************)
GateRoster == <<"Research Agent", "Critical Agent", "Creative Agent">>

\* Entries a message list can hold after the user query.
GateMessages ==
    { Labelled("Human", <<"fine", ",", " ", "I vote to submit">>),
      Labelled("Validation Feedback", FB_VOTE_TOO_EARLY),
      Labelled("Research Agent", <<"idea">>),
      Labelled("Critical Agent", <<"analysis", "\n", "I vote to submit">>),
      Labelled("Creative Agent", <<"i vote to submit">>) }

\* Message lists: the user query first, as main() builds it.
GateLogs ==
    { << Labelled("User Query", INITIAL_TASK) >> \o rest :
        rest \in UNION { [1..n -> GateMessages] : n \in 0..(MaxGateLog - 1) } }

\* Candidate texts, after the prefix removal of agent_node.
GateResponses ==
    { <<"idea">>,
      <<"analysis", "\n", "I VOTE TO SUBMIT">>,
      <<"plan", "\n", "[FINAL_ANSWER]">>,
      <<"idea", "\n", "Critical Agent", ":", " ", "reply">>,
      <<"idea", "\n", "**", "Critical Agent", ":", "**", " ", "reply">>,
      <<"idea", " ", "Research Agent", ":", " ", "more", "\n", "Critical Agent", ":", " ", "reply">> }

GateSpeakers == {"Research Agent", "Creative Agent"}

GateInit ==
    /\ gate_in \in [used : {TRUE}, messages : GateLogs, agent_name : GateSpeakers,
                    content : GateResponses]
    /\ gate_out = NoGate
    /\ v2 = NoV2
    /\ agents = GateRoster
    /\ checkpoint = initial_state
    /\ node = "none"
    /\ state = Dict(initial_state)
    /\ last_valid_state = Dict(initial_state)
    /\ error_count = 0
    /\ pc = "gate"
    /\ last = [op |-> "start", by |-> "none"]
    /\ consec = 0
    /\ clean = TRUE

\* One call of validate_message; three_votes is the vote test it makes.
GateValidate ==
    /\ gate_in.used /\ ~gate_out.used
    /\ \E llm \in IF CallsValidator(gate_in.content, gate_in.agent_name, agents,
                                     gate_in.messages)
                   THEN ValidatorReplies
                   ELSE {NoReply} :
         gate_out' =
           [used |-> TRUE,
            three_votes |-> ThreeVotes(gate_in.messages),
            result |-> validate_message(gate_in.content, gate_in.agent_name, agents,
                                        INITIAL_TASK, gate_in.messages, llm)]
    /\ UNCHANGED <<gate_in, v2, prog, hist>>

NextGate == GateValidate

SpecGate == GateInit /\ [][NextGate]_vars

(***************************************************************************)
(* The graph of the two-agent revision, run by a caller that streams it    *)
(* with a thread id and resumes every interrupt with the human's input.    *)
(***************************************************************************)
\* Feedback rounds the model lets the human supply.
V2MaxFeedback == 6

V2Agents == {"agent1", "agent2"}

V2Init ==
    /\ v2 = [used |-> TRUE, st |-> v2_initial_state, at |-> "agent1",
             prev |-> "none", invoked |-> FALSE, rounds |-> 0, fed_capped |-> FALSE]
    /\ gate_in = NoGate
    /\ gate_out = NoGate
    /\ agents = GateRoster
    /\ checkpoint = initial_state
    /\ node = "none"
    /\ state = Dict(initial_state)
    /\ last_valid_state = Dict(initial_state)
    /\ error_count = 0
    /\ pc = "v2"
    /\ last = [op |-> "start", by |-> "none"]
    /\ consec = 0
    /\ clean = TRUE

\* An agent node runs and route_by_response picks the edge.  A result that
\* is no key of the node's mapping fails the step: nothing is written and
\* the exception leaves app.stream.
V2AgentTurn ==
    /\ v2.used /\ v2.at \in V2Agents
    /\ \E response \in V2Responses :
         LET r == agent_fn(v2.st, response)
             to == V2Edge(v2.at, route_by_response(r.state))
         IN  v2' = [v2 EXCEPT !.st = IF to = "KeyError" THEN v2.st ELSE r.state,
                              !.at = to,
                              !.prev = v2.at,
                              !.invoked = r.invoked]
    /\ UNCHANGED <<gate_in, gate_out, prog, hist>>

\* llm.invoke or log_to_csv raises in agent_fn (neither is called at the
\* cap); nothing catches it.
V2AgentError ==
    /\ v2.used /\ v2.at \in V2Agents
    /\ v2.st.iterations < V2_MAX_ITERATIONS
    /\ v2' = [v2 EXCEPT !.at = "Exception", !.prev = v2.at, !.invoked = TRUE]
    /\ UNCHANGED <<gate_in, gate_out, prog, hist>>

\* The human node is resumed with input that is not blank.
V2HumanFeedback ==
    /\ v2.used /\ v2.at = "human"
    /\ v2.rounds < V2MaxFeedback
    /\ \E user_input \in V2Inputs :
         LET st == v2_human_feedback(v2.st, user_input)
         IN  /\ Strip(user_input) # <<>>
             /\ v2' = [v2 EXCEPT !.st = st,
                                  !.at = V2HumanEdge(st),
                                  !.prev = "human",
                                  !.invoked = FALSE,
                                  !.rounds = v2.rounds + 1,
                                  !.fed_capped = v2.fed_capped
                                       \/ v2.st.iterations >= V2_MAX_ITERATIONS]
    /\ UNCHANGED <<gate_in, gate_out, prog, hist>>

\* The human node is resumed with blank input: the graph ends.
V2HumanSkip ==
    /\ v2.used /\ v2.at = "human"
    /\ \E user_input \in V2Inputs :
         LET st == v2_human_feedback(v2.st, user_input)
         IN  /\ Strip(user_input) = <<>>
             /\ v2' = [v2 EXCEPT !.st = st,
                                  !.at = V2HumanEdge(st),
                                  !.prev = "human",
                                  !.invoked = FALSE]
    /\ UNCHANGED <<gate_in, gate_out, prog, hist>>

NextV2 ==
    \/ V2AgentTurn
    \/ V2AgentError
    \/ V2HumanFeedback
    \/ V2HumanSkip

SpecV2 == V2Init /\ [][NextV2]_vars

(***************************************************************************)
(* Properties.                                                             *)
(***************************************************************************)
log == checkpoint.messages

ErrorOps == {"error", "rejected"}

\* The vote streak as the specification words it, stated without the
\* code's operators: an entry is substantive unless it starts with one of
\* the three labels; it votes when it holds the phrase in any letter case;
\* there are at least three substantive entries and the three most recent
\* all vote.
VoteSpellings == {"i vote to submit", "I vote to submit", "I VOTE TO SUBMIT"}

Votes(msg) == \E i \in DOMAIN msg : msg[i] \in VoteSpellings

Labels == {"Validation Feedback", "Human", "User Query"}

SubstantivePositions(messages) ==
    { i \in DOMAIN messages :
        ~(Len(messages[i]) >= 2 /\ messages[i][1] \in Labels /\ messages[i][2] = ":") }

\* The positions of the (up to) three most recent substantive entries.
RecentThree(messages) ==
    LET pos == SubstantivePositions(messages)
    IN  { i \in pos : Cardinality({ j \in pos : j > i }) < 3 }

Streak(messages) ==
    /\ Cardinality(RecentThree(messages)) = 3
    /\ \A i \in RecentThree(messages) : Votes(messages[i])

\* C1: in a run with no error, rejection or human round so far, the k-th
\* agent utterance of the log is spoken by roster[(k-1) mod N]: the agents
\* are visited in strict cyclic roster order, starting at roster[0].
C1_CyclicOrder ==
    clean =>
      \A k \in 2..Len(log) :
         Speaker(log[k]) = << agents[((k - 2) % Len(agents)) + 1] >>

\* C1 witness: a clean run of the three-agent roster that has wrapped round.
C1_Witness ==
    /\ clean /\ Len(agents) = 3 /\ Len(log) >= 5
    /\ last.op = "speak"

\* C2: after a rejected candidate, the next actor to take a turn is the
\* rejected agent, and the log it sees ends with the feedback entry.
C2_RejectedAgentRetriesWithFeedback ==
    (pc = "stream" /\ last.op = "rejected") =>
      /\ node = last.by
      /\ IsFeedbackMsg(Last(log))

\* C3: every agent utterance with the completion marker in the log is
\* preceded by a vote streak; and a candidate with the marker offered
\* without a streak is returned as the "Final answer can only be provided"
\* feedback entry, adds no entry with the marker, and the marker does not
\* send the scheduler to the human (only the iteration cap can).
C3_NoFinalWithoutStreak ==
    /\ \A k \in DOMAIN log :
         (Substantive(log[k]) /\ HasMarker(log[k])) => Streak(SubSeq(log, 1, k - 1))
    /\ \A i \in DOMAIN agents, response \in Responses :
         (HasMarker(response) /\ ~Streak(log)) =>
           LET r == agent_node(checkpoint, agents, agents[i], response, NoReply)
           IN  /\ r.rejected
               /\ r.feedback = FB_FINAL_TOO_EARLY
               /\ Last(r.state.messages) = Labelled("Validation Feedback", FB_FINAL_TOO_EARLY)
               /\ should_continue(r.state, agents) = "human"
                    => checkpoint.iteration >= MAX_ITERATIONS

\* C3 witness: an agent utterance with the marker was accepted.
C3_Witness ==
    \E k \in DOMAIN log : Substantive(log[k]) /\ HasMarker(log[k])

\* C4: after human feedback is appended the graph runs roster[0], and every
\* agent utterance that follows a Human entry in the log is roster[0]'s.
C4_ResumeAtFirst ==
    /\ (pc = "stream" /\ last.op = "resume") => node = agents[1]
    /\ \A k \in 1..(Len(log) - 1) :
         (IsHumanMsg(log[k]) /\ Substantive(log[k + 1]))
           => Speaker(log[k + 1]) = << agents[1] >>

\* C4 witness: roster[0] spoke last before the suspension (rotation would
\* pick roster[1]) and roster[0] spoke first after the feedback.
C4_Witness ==
    /\ Len(agents) = 3
    /\ \E j \in 2..Len(log), k \in 2..(Len(log) - 1) :
         /\ j < k
         /\ Speaker(log[j]) = << agents[1] >>
         /\ \A m \in (j + 1)..k : IsHumanMsg(log[m])
         /\ Speaker(log[k + 1]) = << agents[1] >>

\* C5: iteration never exceeds MAX_ITERATIONS, and the step that brings it
\* to MAX_ITERATIONS hands over to the human.
C5_IterationCapped ==
    /\ checkpoint.iteration <= MAX_ITERATIONS
    /\ (pc = "stream" /\ last.op = "speak" /\ checkpoint.iteration >= MAX_ITERATIONS)
         => node = "human"

\* C6: a resumption with non-empty feedback leaves the log of the
\* suspension with exactly one more entry, a Human utterance, phase one
\* higher and iteration 0.  (After the resumption main()'s state is the
\* state of the suspension.)
C6_OneHumanEntry ==
    (pc = "stream" /\ last.op = "resume") =>
      /\ \E feedback \in Feedbacks :
           log = Append(state.messages, Labelled("Human", feedback))
      /\ checkpoint.phase = state.phase + 1
      /\ checkpoint.iteration = 0

\* C7: when app.stream is entered again after a caught error, the node that
\* runs is the one should_continue selects for the last valid state.
C7_RetrySameDecision ==
    (pc = "stream" /\ last.op \in ErrorOps) =>
      node = should_continue(Channels(last_valid_state), agents)

\* C8: error_count is the number of caught errors since the last agent step
\* that returned normally; it is below MAX_ERRORS while main() runs; and
\* main() has returned from the except branch exactly when that number is
\* MAX_ERRORS.
C8_ErrorCeiling ==
    /\ error_count = consec
    /\ pc # "ended" => error_count < MAX_ERRORS
    /\ (pc = "ended" /\ last.op \in ErrorOps) <=> consec = MAX_ERRORS

\* C8 witness: the supervisor ended a session whose counter had been reset
\* by successful steps before.
C8_Witness ==
    /\ pc = "ended" /\ error_count = MAX_ERRORS
    /\ Len(log) >= 3

\* C9: the vote test of validate_message is true iff the message list has
\* at least three substantive entries and the three most recent of them
\* each hold the vote phrase in some letter case.
C9_VoteTest ==
    gate_out.used => (gate_out.three_votes <=> Streak(gate_in.messages))

\* C9 witness: the test is true on a list whose three most recent
\* substantive entries are votes in different letter cases, with a
\* non-substantive entry among them.
C9_Witness ==
    /\ gate_out.used /\ gate_out.three_votes
    /\ \E i, j \in RecentThree(gate_in.messages) :
         /\ \E k \in DOMAIN gate_in.messages : i < k /\ k < j
                 /\ k \notin SubstantivePositions(gate_in.messages)
         /\ Last(gate_in.messages[i]) # Last(gate_in.messages[j])

\* C10: the vote test is false whenever a Human or Validation Feedback
\* entry lies between two of the three most recent substantive entries.
C10_StreakBrokenByFeedback ==
    (\E i, j \in RecentThree(log) :
        \E k \in DOMAIN log :
           i < k /\ k < j /\ (IsHumanMsg(log[k]) \/ IsFeedbackMsg(log[k])))
      => ~ThreeVotes(log)

TurnsSinceHuman(messages) ==
    LET marks == { i \in DOMAIN messages :
                     Len(messages[i]) >= 2 /\ messages[i][1] \in {"Human", "User Query"}
                                          /\ messages[i][2] = ":" }
    IN  { k \in SubstantivePositions(messages) : \A i \in marks : i < k }

\* C12: in every reachable state iteration is the number of agent
\* utterances in the log after the most recent "Human:" or "User Query:"
\* entry (feedback entries not counted); and a step brings iteration down
\* to 0 only by leaving a longer log that ends with a "Human:" entry.
C12_IterationCountsTurns ==
    [][ /\ checkpoint.iteration = Cardinality(TurnsSinceHuman(log))
        /\ checkpoint'.iteration = Cardinality(TurnsSinceHuman(checkpoint'.messages))
        /\ (checkpoint'.iteration < checkpoint.iteration) =>
              /\ checkpoint'.iteration = 0
              /\ Len(checkpoint'.messages) > Len(log)
              /\ SubSeq(checkpoint'.messages, 1, Len(log)) = log
              /\ \A k \in (Len(log) + 1)..Len(checkpoint'.messages) :
                    StartsWith(checkpoint'.messages[k], <<"Human", ":", " ">>) ]_vars

\* C12 witness: agents have spoken again after a human round that had
\* reset a counter of at least two.
C12_Witness ==
    /\ checkpoint.iteration >= 1
    /\ \E k \in DOMAIN log : IsHumanMsg(log[k])
    /\ Cardinality(SubstantivePositions(log)) >= checkpoint.iteration + 2

\* The "Human:" entries of a message list.
HumanPositions(messages) ==
    { i \in DOMAIN messages :
        Len(messages[i]) >= 2 /\ messages[i][1] = "Human" /\ messages[i][2] = ":" }

\* C13: in every reachable state phase is 1 plus the number of "Human:"
\* entries of the log; and a step changes phase only by appending "Human:"
\* entries to the log, by 1 for each entry: no agent step, validation
\* feedback or error changes it.
C13_PhaseCountsHuman ==
    [][ /\ checkpoint.phase = 1 + Cardinality(HumanPositions(log))
        /\ checkpoint'.phase = 1 + Cardinality(HumanPositions(checkpoint'.messages))
        /\ (checkpoint'.phase # checkpoint.phase) =>
              /\ Len(checkpoint'.messages) > Len(log)
              /\ SubSeq(checkpoint'.messages, 1, Len(log)) = log
              /\ \A k \in (Len(log) + 1)..Len(checkpoint'.messages) :
                    k \in HumanPositions(checkpoint'.messages) ]_vars

\* The entries of messages since the session start or the last human
\* feedback round, counted generously: from the first entry of the most
\* recent run of "Human:" / "User Query:" entries to the end, that run and
\* feedback entries included.
EntriesThisRound(messages) ==
    LET marks == { i \in DOMAIN messages :
                     Len(messages[i]) >= 2 /\ messages[i][1] \in {"Human", "User Query"}
                                          /\ messages[i][2] = ":" }
        lastMark == CHOOSE i \in marks : \A j \in marks : j <= i
        runStart == CHOOSE h \in marks :
                      /\ \A i \in h..lastMark : i \in marks
                      /\ (h - 1) \notin marks
    IN  Len(messages) - runStart + 1

\* C14: a candidate with the vote phrase offered while fewer than 3 entries
\* have occurred since the session start or the last human feedback round
\* is rejected, so every agent utterance with the vote phrase in the log
\* has at least 3 entries of its round before it.
C14_NoEarlyVote ==
    \A k \in SubstantivePositions(log) :
       Votes(log[k]) => EntriesThisRound(SubSeq(log, 1, k - 1)) >= 3

\* C15: when the two latest entries of the log are agent utterances that
\* vote and the scheduler has passed the turn to the next agent, a
\* candidate of that agent that holds the vote phrase is the
\* third consecutive vote, and validate_message answers it with the
\* "Consensus reached" reminder.
C15_ReminderOnThirdVote ==
    ( /\ pc = "stream" /\ IsAgent(node) /\ last.op = "speak"
      /\ Len(log) >= 3
      /\ {Len(log) - 1, Len(log)} \subseteq SubstantivePositions(log)
      /\ Votes(log[Len(log) - 1]) /\ Votes(log[Len(log)]) )
    => \A response \in Responses :
          Votes(response) =>
            agent_node(checkpoint, agents, node, response, NoReply).feedback = FB_CONSENSUS

\* C16: when validate_message answers the running agent's candidate with
\* the "Consensus reached" reminder, the step still appends the agent's
\* utterance to the log and counts the turn.
C16_ReminderDoesNotBlock ==
    (pc = "stream" /\ IsAgent(node) /\ last.op = "speak") =>
      \A response \in Responses :
         LET v == validate_message(RemovePrefix(response, node), node, agents,
                                   OriginalQuery(checkpoint), log, NoReply)
             r == agent_node(checkpoint, agents, node, response, NoReply)
         IN  v.feedback = FB_CONSENSUS =>
               /\ r.state.messages = Append(log, Labelled(node, v.content))
               /\ r.state.iteration = checkpoint.iteration + 1

\* C17: when the running agent's candidate carries the completion marker
\* after a vote streak and the format validator fails or reports the
\* answer as not valid, the step returns a feedback entry and appends no
\* utterance of the agent.
C17_InvalidNotAccepted ==
    (pc = "stream" /\ IsAgent(node) /\ last.op = "speak" /\ Streak(log)) =>
      \A response \in Responses, llm \in ValidatorReplies :
         (HasMarker(response) /\ (llm.raises \/ ~llm.is_valid)) =>
           LET r == agent_node(checkpoint, agents, node, response, llm)
           IN  /\ r.rejected
               /\ IsFeedbackMsg(Last(r.state.messages))
               /\ ~HasMarker(Last(r.state.messages))

\* C18: the step in which the human supplies empty feedback is taken while
\* the graph waits in the human node, appends nothing, and ends main();
\* from the state it leaves no further step is taken: no agent turn, no
\* append, no transition.
C18_EmptyFeedbackTerminates ==
    [][ /\ last.op # "human_end"
        /\ (last'.op = "human_end") =>
              /\ pc = "stream" /\ node = "human"
              /\ pc' = "ended"
              /\ checkpoint' = checkpoint ]_vars

\* C18 witness: the human declined after agents had spoken.
C18_Witness ==
    /\ pc = "ended" /\ last.op = "human_end"
    /\ Cardinality(SubstantivePositions(log)) >= MAX_ITERATIONS

\* C19: an agent step in which save_conversation_to_csv raises does not end
\* main(), however many such steps came before it.
C19_LoggingFailureNotFatal ==
    [][ AgentLogError => pc' # "ended" ]_vars

\* C20: the log is append-only: every step leaves a log that has the log
\* before the step as a prefix, so the log of any later state extends the
\* log of every earlier state.
C20_AppendOnly ==
    [][ /\ Len(checkpoint'.messages) >= Len(log)
        /\ SubSeq(checkpoint'.messages, 1, Len(log)) = log ]_vars

\* An entry that holds the completion marker, stated without the code's
\* operators.
Marked(msg) == \E i \in DOMAIN msg : msg[i] = "[FINAL_ANSWER]"

\* C21: after an accepted utterance that leaves a vote streak in the log,
\* with no marker in that utterance and iteration below MAX_ITERATIONS, the
\* node chosen is the roster entry after the speaker, in rotation; and the
\* human node is chosen after an accepted utterance only when the utterance
\* holds the marker or iteration has reached MAX_ITERATIONS.
C21_VotesAloneDoNotSuspend ==
    (pc = "stream" /\ last.op = "speak") =>
      /\ (Streak(log) /\ ~Marked(Last(log)) /\ checkpoint.iteration < MAX_ITERATIONS) =>
            \E i \in DOMAIN agents :
               /\ Last(log)[1] = agents[i]
               /\ node = agents[(i % Len(agents)) + 1]
      /\ (node = "human") =>
            (Marked(Last(log)) \/ checkpoint.iteration >= MAX_ITERATIONS)

\* C21 witness: a vote has just completed a streak below the cap and an
\* agent, not the human, is about to run.
C21_Witness ==
    /\ pc = "stream" /\ last.op = "speak"
    /\ Streak(log) /\ Votes(Last(log))
    /\ checkpoint.iteration < MAX_ITERATIONS
    /\ IsAgent(node)

C23_QueryFirst ==
    /\ log # <<>> /\ log[1] = <<"User Query", ":", " ", "task">>
    /\ state.messages # <<>> /\ state.messages[1] = log[1]
    /\ last_valid_state.messages # <<>> /\ last_valid_state.messages[1] = log[1]

\* C23 witness: the graph has been through a human round and a retry.
C23_Witness ==
    /\ pc = "stream" /\ error_count > 0
    /\ HumanPositions(log) # {}
    /\ SubstantivePositions(log) # {}

\* C24: for every state an agent node can return, a state whose last entry
\* is a "Validation Feedback:" entry included, should_continue returns a
\* roster name or "human".
C24_SchedulerTotal ==
    (pc = "stream" /\ IsAgent(node)) =>
      \A r \in Returns :
         should_continue(r.state, agents) \in { agents[i] : i \in DOMAIN agents } \cup {"human"}

\* C25: no two agent utterances that follow each other directly in the log
\* have the same speaker (every roster has at least two agents).
C25_NoSpeakerTwice ==
    \A k \in 1..(Len(log) - 1) :
       ({k, k + 1} \subseteq SubstantivePositions(log)) => log[k][1] # log[k + 1][1]

\* C26: when an agent step has just appended an accepted utterance that
\* holds the completion marker, the node the graph runs next is the human
\* node, whose first act is the interrupt: no agent node runs before the
\* human has been asked.
C26_MarkerSuspends ==
    (pc = "stream" /\ last.op = "speak" /\ Marked(Last(log))) =>
      /\ node = "human"
      /\ ~IsAgent(node)

\* C26 witness: a marked utterance was accepted below the iteration cap,
\* so that only the marker sends the graph to the human.
C26_Witness ==
    /\ pc = "stream" /\ last.op = "speak"
    /\ Marked(Last(log))
    /\ checkpoint.iteration < MAX_ITERATIONS
    /\ node = "human"

\* C27: every run reaches, again and again until main() has returned, a
\* state where the graph waits for the human or main() has returned: there
\* is no infinite run of agent steps, rejections and retries without human
\* review.
C27_EventuallyHumanOrEnd ==
    []<>((pc = "stream" /\ node = "human") \/ pc = "ended")

\* C27 witness: the human node is reached after a rejection and a retry
\* since the last human round or the start.
C27_Witness ==
    /\ pc = "stream" /\ node = "human"
    /\ last.op = "rejected"
    /\ checkpoint.iteration >= MAX_ITERATIONS

\* The positions of content where another roster member's name followed by
\* ":" begins, plain ("Name:") or bold ("**Name:**").
RolePlayStarts(content, agent_name, roster) ==
    LET others == { roster[i] : i \in DOMAIN roster } \ {agent_name}
    IN  { i \in DOMAIN content :
            \/ /\ i + 1 <= Len(content)
               /\ content[i] \in others /\ content[i + 1] = ":"
               /\ ~(i > 1 /\ content[i - 1] = "**"
                          /\ i + 2 <= Len(content) /\ content[i + 2] = "**")
            \/ /\ i + 3 <= Len(content)
               /\ content[i] = "**" /\ content[i + 1] \in others
               /\ content[i + 2] = ":" /\ content[i + 3] = "**" }

\* The trimmed prefix of content before the earliest such position; content
\* itself when there is none.
BeforeRolePlay(content, agent_name, roster) ==
    LET starts == RolePlayStarts(content, agent_name, roster)
    IN  IF starts = {} THEN content
        ELSE Strip(SubSeq(content, 1, (CHOOSE i \in starts : \A j \in starts : i <= j) - 1))

\* C28: for a candidate without the completion marker, the text
\* validate_message passes on is the trimmed prefix of the candidate before
\* the earliest "Name:" or "**Name:**" of another roster member (the whole
\* candidate when there is none), and holds no such marker itself.
C28_RolePlayTruncated ==
    (gate_out.used /\ ~Marked(gate_in.content)) =>
      /\ gate_out.result.content
           = BeforeRolePlay(gate_in.content, gate_in.agent_name, agents)
      /\ RolePlayStarts(gate_out.result.content, gate_in.agent_name, agents) = {}

\* C29: in the two-agent revision, after a turn of agent1 whose response
\* does not hold TERMINATE the graph goes to agent2, and after such a turn
\* of agent2 it goes to agent1: the result of route_by_response is always
\* a key of the node's edge mapping.
C29_StrictAlternation ==
    (v2.used /\ v2.prev \in V2Agents /\ v2.at \notin {"human", "Exception"}) =>
      v2.at = (IF v2.prev = "agent1" THEN "agent2" ELSE "agent1")

\* The content of a message holds TERMINATE in some letter case.
Terminates(msg) == \E i \in DOMAIN msg : msg[i] \in {"TERMINATE", "terminate"}

\* C30: in the two-agent revision iterations never decreases and the human
\* node leaves it as it is; and every agent turn taken with iterations at
\* MAX_ITERATIONS or above returns the "TERMINATE - Max iterations
\* reached" message without calling llm.invoke, leaves iterations as it
\* is, and goes to the human node.
C30_CapHoldsAcrossFeedback ==
    [][ v2.used =>
          /\ v2'.st.iterations >= v2.st.iterations
          /\ (v2.at = "human") => v2'.st.iterations = v2.st.iterations
          /\ (v2.at \in V2Agents /\ v2.st.iterations >= V2_MAX_ITERATIONS) =>
                /\ v2'.st.messages = << <<"TERMINATE", " ", "-", " ", "Max iterations reached">> >>
                /\ ~v2'.invoked
                /\ v2'.st.iterations = v2.st.iterations
                /\ v2'.at = "human" ]_vars

\* C30 witness: an agent turn at the cap has sent the graph to the human
\* after the human had already supplied feedback at the cap.
C30_Witness ==
    /\ v2.used /\ v2.fed_capped
    /\ v2.prev \in V2Agents /\ ~v2.invoked
    /\ v2.at = "human"
    /\ Terminates(Last(v2.st.messages))

====
